---- MODULE Spec2Model ----
(***************************************************************************)
(* Discrete-Calculator: the algorithm layer (number_systems.py,            *)
(* set_operations.py, searching.py, sorting.py).  Every operation is a     *)
(* synchronous call; the state is the last call made by the caller, what   *)
(* it returned, the call before it (for chained calls) and the caller's    *)
(* list objects.                                                           *)
(***************************************************************************)
EXTENDS Integers, Sequences, FiniteSets, TLC

VARIABLES call, ret, prev, heap

vars == <<call, ret, prev, heap>>

(***************************************************************************)
(* Bounds of the model.                                                    *)
(***************************************************************************)
MaxLitLen == 3

MaxArrLen == 4

MaxVal == 3

MaxToken == 4

MaxArrText == 4

MaxTargetText == 1

MaxSetText == 3

(***************************************************************************)
(* Text.  A str is a sequence of one-character strings.                    *)
(***************************************************************************)
DecDigits == <<"0", "1", "2", "3", "4", "5", "6", "7", "8", "9">>

OctDigits == <<"0", "1", "2", "3", "4", "5", "6", "7">>

BinDigits == <<"0", "1">>

hex_chars == <<"0", "1", "2", "3", "4", "5", "6", "7", "8", "9",
               "A", "B", "C", "D", "E", "F">>

LowerLetters == <<"a", "b", "c", "d", "e", "f", "g", "h", "i", "j", "k", "l", "m",
                  "n", "o", "p", "q", "r", "s", "t", "u", "v", "w", "x", "y", "z">>

UpperLetters == <<"A", "B", "C", "D", "E", "F", "G", "H", "I", "J", "K", "L", "M",
                  "N", "O", "P", "Q", "R", "S", "T", "U", "V", "W", "X", "Y", "Z">>

Whitespace == {" ", "\t", "\n"}

Range(s) == {s[i] : i \in 1..Len(s)}

\* seq.index(c): 0-based position of the first occurrence of c in seq
IndexOf(seq, c) == (CHOOSE i \in 1..Len(seq) : seq[i] = c /\ \A j \in 1..(i - 1) : seq[j] # c) - 1

\* c.upper() for one character
UpperChar(c) == IF c \in Range(LowerLetters) THEN UpperLetters[IndexOf(LowerLetters, c) + 1] ELSE c

\* s.upper()
Upper(s) == [i \in 1..Len(s) |-> UpperChar(s[i])]

\* s.replace(" ", "")
RemoveSpaces(s) == SelectSeq(s, LAMBDA c : c # " ")

\* reversed(s)
Reversed(s) == [i \in 1..Len(s) |-> s[Len(s) + 1 - i]]

RECURSIVE LStrip(_)
LStrip(s) == IF s # <<>> /\ Head(s) \in Whitespace THEN LStrip(Tail(s)) ELSE s

\* s.strip()
Strip(s) == Reversed(LStrip(Reversed(LStrip(s))))

(***************************************************************************)
(* Outcomes of a call: a returned value or a raised ValueError.  The kind  *)
(* of the error is read off the message: "Invalid <base> digit: ..." is    *)
(* InvalidDigit, "Unsupported base: ..." is UnsupportedBase, and int()'s   *)
(* "invalid literal for int() ..." is InvalidFormat.                       *)
(***************************************************************************)
Return(v) == [ok |-> TRUE, value |-> v]

Raise(kind) == [ok |-> FALSE, err |-> kind]

(***************************************************************************)
(* int(value) and str(decimal) of the language, on text.                   *)
(***************************************************************************)
\* the digits-and-underscores body of an integer literal is well formed
IntBodyOk(body) ==
    /\ body # <<>>
    /\ \A i \in 1..Len(body) : body[i] \in Range(DecDigits) \/ body[i] = "_"
    /\ body[1] # "_"
    /\ body[Len(body)] # "_"
    /\ \A i \in 1..(Len(body) - 1) : ~(body[i] = "_" /\ body[i + 1] = "_")

RECURSIVE IntDigitsValue(_, _)
IntDigitsValue(body, acc) ==
    IF body = <<>> THEN acc
    ELSE IF Head(body) = "_" THEN IntDigitsValue(Tail(body), acc)
    ELSE IntDigitsValue(Tail(body), acc * 10 + IndexOf(DecDigits, Head(body)))

\* variant: only a '-' sign is recognised
PyIntNoPlus(value) ==
    LET s == Strip(value)
        signed == s # <<>> /\ Head(s) = "-"
        body == IF signed THEN Tail(s) ELSE s
        sign == IF signed THEN -1 ELSE 1
    IN IF IntBodyOk(body) THEN Return(sign * IntDigitsValue(body, 0))
       ELSE Raise("InvalidFormat")

\* int(value) for a str value
PyInt(value) ==
    LET s == Strip(value)
        signed == s # <<>> /\ Head(s) \in {"+", "-"}
        body == IF signed THEN Tail(s) ELSE s
        sign == IF signed /\ Head(s) = "-" THEN -1 ELSE 1
    IN IF IntBodyOk(body) THEN Return(sign * IntDigitsValue(body, 0))
       ELSE Raise("InvalidFormat")

RECURSIVE StrLoop(_, _)
StrLoop(num, text) ==
    IF num > 0 THEN StrLoop(num \div 10, <<DecDigits[(num % 10) + 1]>> \o text) ELSE text

Abs(n) == IF n < 0 THEN -n ELSE n

\* str(decimal) for an int
PyStr(decimal) ==
    IF decimal = 0 THEN <<"0">>
    ELSE IF decimal > 0 THEN StrLoop(decimal, <<>>)
    ELSE <<"-">> \o StrLoop(-decimal, <<>>)

(***************************************************************************)
(* NumberSystemConverter                                                   *)
(***************************************************************************)
RECURSIVE BinaryLoop(_, _)
BinaryLoop(num, binary) ==
    IF num > 0 THEN BinaryLoop(num \div 2, PyStr(num % 2) \o binary) ELSE binary

\* variant: the sign is not put back
decimal_to_binary_unsigned(decimal) ==
    IF decimal = 0 THEN <<"0">> ELSE BinaryLoop(Abs(decimal), <<>>)

decimal_to_binary(decimal) ==
    IF decimal = 0 THEN <<"0">>
    ELSE LET binary == BinaryLoop(Abs(decimal), <<>>)
         IN IF decimal >= 0 THEN binary ELSE <<"-">> \o binary

RECURSIVE OctalLoop(_, _)
OctalLoop(num, octal) ==
    IF num > 0 THEN OctalLoop(num \div 8, PyStr(num % 8) \o octal) ELSE octal

decimal_to_octal(decimal) ==
    IF decimal = 0 THEN <<"0">>
    ELSE LET octal == OctalLoop(Abs(decimal), <<>>)
         IN IF decimal >= 0 THEN octal ELSE <<"-">> \o octal

RECURSIVE HexLoop(_, _)
HexLoop(num, hexadecimal) ==
    IF num > 0 THEN HexLoop(num \div 16, <<hex_chars[(num % 16) + 1]>> \o hexadecimal)
    ELSE hexadecimal

\* variant: zero is not special-cased, so it renders as the empty text
decimal_to_hexadecimal_nozero(decimal) ==
    LET hexadecimal == HexLoop(Abs(decimal), <<>>)
    IN IF decimal >= 0 THEN hexadecimal ELSE <<"-">> \o hexadecimal

decimal_to_hexadecimal(decimal) ==
    IF decimal = 0 THEN <<"0">>
    ELSE LET hexadecimal == HexLoop(Abs(decimal), <<>>)
         IN IF decimal >= 0 THEN hexadecimal ELSE <<"-">> \o hexadecimal

\* for i, digit in enumerate(reversed(binary)): i is 0-based, rev is 1-based
RECURSIVE BinaryAccumulate(_, _, _)
BinaryAccumulate(rev, i, decimal) ==
    IF i >= Len(rev) THEN Return(decimal)
    ELSE LET digit == rev[i + 1]
         IN IF digit \notin Range(BinDigits) THEN Raise("InvalidDigit")
            ELSE BinaryAccumulate(rev, i + 1, decimal + IndexOf(DecDigits, digit) * (2 ^ i))

binary_to_decimal(value) ==
    LET binary == RemoveSpaces(value)
        negative == binary # <<>> /\ Head(binary) = "-"
        sign == IF negative THEN -1 ELSE 1
        digits == IF negative THEN Tail(binary) ELSE binary
        r == BinaryAccumulate(Reversed(digits), 0, 0)
    IN IF r.ok THEN Return(sign * r.value) ELSE r

RECURSIVE OctalAccumulate(_, _, _)
OctalAccumulate(rev, i, decimal) ==
    IF i >= Len(rev) THEN Return(decimal)
    ELSE LET digit == rev[i + 1]
         IN IF digit \notin Range(OctDigits) THEN Raise("InvalidDigit")
            ELSE OctalAccumulate(rev, i + 1, decimal + IndexOf(DecDigits, digit) * (8 ^ i))

\* variant: the digit test uses the decimal alphabet
RECURSIVE OctalAccumulateLoose(_, _, _)
OctalAccumulateLoose(rev, i, decimal) ==
    IF i >= Len(rev) THEN Return(decimal)
    ELSE LET digit == rev[i + 1]
         IN IF digit \notin Range(DecDigits) THEN Raise("InvalidDigit")
            ELSE OctalAccumulateLoose(rev, i + 1, decimal + IndexOf(DecDigits, digit) * (8 ^ i))

octal_to_decimal_loose(value) ==
    LET octal == RemoveSpaces(value)
        negative == octal # <<>> /\ Head(octal) = "-"
        sign == IF negative THEN -1 ELSE 1
        digits == IF negative THEN Tail(octal) ELSE octal
        r == OctalAccumulateLoose(Reversed(digits), 0, 0)
    IN IF r.ok THEN Return(sign * r.value) ELSE r

octal_to_decimal(value) ==
    LET octal == RemoveSpaces(value)
        negative == octal # <<>> /\ Head(octal) = "-"
        sign == IF negative THEN -1 ELSE 1
        digits == IF negative THEN Tail(octal) ELSE octal
        r == OctalAccumulate(Reversed(digits), 0, 0)
    IN IF r.ok THEN Return(sign * r.value) ELSE r

RECURSIVE HexAccumulate(_, _, _)
HexAccumulate(rev, i, decimal) ==
    IF i >= Len(rev) THEN Return(decimal)
    ELSE LET char == rev[i + 1]
         IN IF char \notin Range(hex_chars) THEN Raise("InvalidDigit")
            ELSE HexAccumulate(rev, i + 1, decimal + IndexOf(hex_chars, char) * (16 ^ i))

hexadecimal_to_decimal(value) ==
    LET hexadecimal == Upper(RemoveSpaces(value))
        negative == hexadecimal # <<>> /\ Head(hexadecimal) = "-"
        sign == IF negative THEN -1 ELSE 1
        digits == IF negative THEN Tail(hexadecimal) ELSE hexadecimal
        r == HexAccumulate(Reversed(digits), 0, 0)
    IN IF r.ok THEN Return(sign * r.value) ELSE r

\* first half of convert: the literal to an int
ToDecimal(value, from_base) ==
    IF from_base = 10 THEN PyInt(value)
    ELSE IF from_base = 2 THEN binary_to_decimal(value)
    ELSE IF from_base = 8 THEN octal_to_decimal(value)
    ELSE IF from_base = 16 THEN hexadecimal_to_decimal(value)
    ELSE Raise("UnsupportedBase")

\* variant: an unknown target base falls through to the decimal rendering
FromDecimalFallthrough(decimal, to_base) ==
    IF to_base = 2 THEN Return(decimal_to_binary(decimal))
    ELSE IF to_base = 8 THEN Return(decimal_to_octal(decimal))
    ELSE IF to_base = 16 THEN Return(decimal_to_hexadecimal(decimal))
    ELSE Return(PyStr(decimal))

\* second half of convert: the int to text of the target base
FromDecimal(decimal, to_base) ==
    IF to_base = 10 THEN Return(PyStr(decimal))
    ELSE IF to_base = 2 THEN Return(decimal_to_binary(decimal))
    ELSE IF to_base = 8 THEN Return(decimal_to_octal(decimal))
    ELSE IF to_base = 16 THEN Return(decimal_to_hexadecimal(decimal))
    ELSE Raise("UnsupportedBase")

convert(value, from_base, to_base) ==
    LET d == ToDecimal(value, from_base)
    IN IF d.ok THEN FromDecimal(d.value, to_base) ELSE d

(***************************************************************************)
(* Lists.  The caller's list objects live in heap, a sequence of list      *)
(* contents indexed by reference; list indices of the code are 0-based    *)
(* and a negative index counts from the end; At reads one element.         *)
(***************************************************************************)
At(arr, i) == IF i >= 0 THEN arr[i + 1] ELSE arr[Len(arr) + i + 1]

\* arr[i] raises IndexError outside this range
InRange(arr, i) == -Len(arr) <= i /\ i < Len(arr)

Put(arr, i, v) == [arr EXCEPT ![i + 1] = v]

(***************************************************************************)
(* Elements of the lists.  An int is itself; a str is a number from        *)
(* StrBase up, above every int the model holds, and the numbers of two     *)
(* strs are ordered as Python orders the strs (character by character by   *)
(* code point, a proper prefix first).                                     *)
(***************************************************************************)
\* the characters of the texts typed into the window, by code point
CodePointOrder == <<" ", ",", "1", "2", "a">>

StrWidth == MaxArrText + MaxTargetText

RECURSIVE Pow(_, _)
Pow(b, e) == IF e = 0 THEN 1 ELSE b * Pow(b, e - 1)

StrBase == Pow(Len(DecDigits), StrWidth)

RECURSIVE StrOrd(_, _)
StrOrd(s, i) ==
    IF i > StrWidth THEN 0
    ELSE (IF i <= Len(s) THEN IndexOf(CodePointOrder, s[i]) + 1 ELSE 0)
             * Pow(Len(CodePointOrder) + 1, StrWidth - i)
         + StrOrd(s, i + 1)

\* the element a str is
StrCode(s) == StrBase + StrOrd(s, 1)

\* isinstance(v, str)
IsStr(v) == v >= StrBase

\* a < b and a > b raise TypeError between an int and a str
Comparable(a, b) == IsStr(a) = IsStr(b)

\* variant: no new list is made, the name is bound to the caller's list
ListAlias(h, r) == [heap |-> h, ref |-> r]

\* array.copy(): a new list object with the same contents
ListCopy(h, r) == [heap |-> Append(h, h[r]), ref |-> Len(h) + 1]

\* what a call leaves behind: the heap, and the (result, steps) it returns
Outcome(h, result, steps) == [heap |-> h, value |-> [result |-> result, steps |-> steps]]

(***************************************************************************)
(* SearchingAlgorithms.  A trace line is a record of what the line states. *)
(***************************************************************************)
\* variant: the matching comparison is not recorded
RECURSIVE LinearLoopSilent(_, _, _, _)
LinearLoopSilent(arr, i, target, steps) ==
    IF i >= Len(arr) THEN [index |-> -1, steps |-> Append(steps, [kind |-> "notfound"])]
    ELSE LET element == At(arr, i)
             checked == Append(steps, [kind |-> "check", index |-> i, element |-> element,
                                       rel |-> "/=", target |-> target])
         IN IF element = target
            THEN [index |-> i, steps |-> Append(steps, [kind |-> "found", index |-> i])]
            ELSE LinearLoopSilent(arr, i + 1, target, checked)

RECURSIVE LinearLoop(_, _, _, _)
LinearLoop(arr, i, target, steps) ==
    IF i >= Len(arr) THEN [index |-> -1, steps |-> Append(steps, [kind |-> "notfound"])]
    ELSE LET element == At(arr, i)
             checked == Append(steps, [kind |-> "check", index |-> i, element |-> element,
                                       rel |-> IF element = target THEN "=" ELSE "/=",
                                       target |-> target])
         IN IF element = target
            THEN [index |-> i, steps |-> Append(checked, [kind |-> "found", index |-> i])]
            ELSE LinearLoop(arr, i + 1, target, checked)

\* variant: the scan starts at the second element
linear_search_fromone(h, array, target) ==
    LET r == LinearLoop(h[array], 1, target, <<>>)
    IN Outcome(h, r.index, r.steps)

linear_search(h, array, target) ==
    LET r == LinearLoop(h[array], 0, target, <<>>)
    IN Outcome(h, r.index, r.steps)

\* variant: the probe is the left end, not the middle
RECURSIVE BisectLoopLeft(_, _, _, _, _, _)
BisectLoopLeft(arr, left, right, step_num, target, steps) ==
    IF ~(left <= right)
    THEN [index |-> -1, steps |-> Append(steps, [kind |-> "notfound"]), iters |-> <<>>]
    ELSE LET mid == left
             it == [left |-> left, mid |-> mid, right |-> right]
             mid_value == At(arr, mid)
             probed == Append(steps, [kind |-> "probe", step |-> step_num,
                                      index |-> mid, value |-> mid_value])
             r == IF mid_value = target
                  THEN [index |-> mid, iters |-> <<>>,
                        steps |-> Append(probed, [kind |-> "found", index |-> mid])]
                  ELSE IF mid_value < target
                  THEN BisectLoopLeft(arr, mid + 1, right, step_num + 1, target,
                                      Append(probed, [kind |-> "right", value |-> mid_value,
                                                      target |-> target, lo |-> mid + 1,
                                                      hi |-> right]))
                  ELSE BisectLoopLeft(arr, left, mid - 1, step_num + 1, target,
                                      Append(probed, [kind |-> "left", value |-> mid_value,
                                                      target |-> target, lo |-> left,
                                                      hi |-> mid - 1]))
         IN [r EXCEPT !.iters = <<it>> \o @]

\* what binary_search leaves behind: its return or the exception it raised,
\* and the runs of the loop body
Bisected(h, r) ==
    IF "raised" \in DOMAIN r THEN [heap |-> h, raised |-> r.raised, iters |-> r.iters]
    ELSE [heap |-> h, value |-> [result |-> r.index, steps |-> r.steps], iters |-> r.iters]

\* One run of the loop body per call.  Beside what the code returns, the
\* record carries iters, the (left, mid, right) of every run of the body.
RECURSIVE BisectLoop(_, _, _, _, _, _)
BisectLoop(arr, left, right, step_num, target, steps) ==
    IF ~(left <= right)
    THEN [index |-> -1, steps |-> Append(steps, [kind |-> "notfound"]), iters |-> <<>>]
    ELSE LET mid == (left + right) \div 2
             it == [left |-> left, mid |-> mid, right |-> right]
         IN IF ~InRange(arr, mid)
            THEN [raised |-> "IndexError", steps |-> steps, iters |-> <<it>>]
            ELSE LET mid_value == At(arr, mid)
                     probed == Append(steps, [kind |-> "probe", step |-> step_num,
                                              index |-> mid, value |-> mid_value])
                     r == IF mid_value = target
                          THEN [index |-> mid, iters |-> <<>>,
                                steps |-> Append(probed, [kind |-> "found", index |-> mid])]
                          ELSE IF ~Comparable(mid_value, target)
                          THEN [raised |-> "TypeError", steps |-> probed, iters |-> <<>>]
                          ELSE IF mid_value < target
                          THEN BisectLoop(arr, mid + 1, right, step_num + 1, target,
                                          Append(probed, [kind |-> "right", value |-> mid_value,
                                                          target |-> target, lo |-> mid + 1,
                                                          hi |-> right]))
                          ELSE BisectLoop(arr, left, mid - 1, step_num + 1, target,
                                          Append(probed, [kind |-> "left", value |-> mid_value,
                                                          target |-> target, lo |-> left,
                                                          hi |-> mid - 1]))
                 IN [r EXCEPT !.iters = <<it>> \o @]

\* variant: the right end starts one short
binary_search_short(h, array, target) ==
    Bisected(h, BisectLoop(h[array], 0, Len(h[array]) - 2, 1, target, <<>>))

\* variant: the right end starts one past the last index
binary_search_long(h, array, target) ==
    Bisected(h, BisectLoop(h[array], 0, Len(h[array]), 1, target, <<>>))

binary_search(h, array, target) ==
    Bisected(h, BisectLoop(h[array], 0, Len(h[array]) - 1, 1, target, <<>>))

(***************************************************************************)
(* SortingAlgorithms                                                       *)
(***************************************************************************)
\* variant: every pass runs over the whole array
RECURSIVE BubbleInnerFull(_, _, _, _, _, _)
BubbleInnerFull(arr, n, i, j, swapped, steps) ==
    IF j >= n - 1 THEN [arr |-> arr, swapped |-> swapped, steps |-> steps, compared |-> <<>>]
    ELSE LET r == IF At(arr, j) > At(arr, j + 1)
                  THEN LET sw == Put(Put(arr, j, At(arr, j + 1)), j + 1, At(arr, j))
                       IN BubbleInnerFull(sw, n, i, j + 1, TRUE,
                                          Append(steps, [kind |-> "swap", a |-> At(sw, j + 1),
                                                         b |-> At(sw, j), arr |-> sw]))
                  ELSE BubbleInnerFull(arr, n, i, j + 1, swapped, steps)
         IN [r EXCEPT !.compared = <<j>> \o @]

\* for j in range(0, n - i - 1).  Beside the loop's variables the record
\* carries compared, the j of every evaluation of arr[j] > arr[j + 1].
RECURSIVE BubbleInner(_, _, _, _, _, _)
BubbleInner(arr, n, i, j, swapped, steps) ==
    IF j >= n - i - 1 THEN [arr |-> arr, swapped |-> swapped, steps |-> steps, compared |-> <<>>]
    ELSE LET r == IF At(arr, j) > At(arr, j + 1)
                  THEN LET sw == Put(Put(arr, j, At(arr, j + 1)), j + 1, At(arr, j))
                       IN BubbleInner(sw, n, i, j + 1, TRUE,
                                      Append(steps, [kind |-> "swap", a |-> At(sw, j + 1),
                                                     b |-> At(sw, j), arr |-> sw]))
                  ELSE BubbleInner(arr, n, i, j + 1, swapped, steps)
         IN [r EXCEPT !.compared = <<j>> \o @]

\* variant: the loop is left after its first pass, swaps or not
BubbleOuterOnePass(arr, n, i, steps) ==
    IF i >= n THEN [arr |-> arr, steps |-> steps, passes |-> <<>>]
    ELSE LET pass == BubbleInner(arr, n, i, 0, FALSE,
                                 Append(steps, [kind |-> "pass", num |-> i + 1]))
         IN [arr |-> pass.arr, steps |-> Append(pass.steps, [kind |-> "sorted"]),
             passes |-> <<[i |-> i, compared |-> pass.compared]>>]

\* variant: no early exit, every one of the n passes is made
RECURSIVE BubbleOuterNoBreak(_, _, _, _)
BubbleOuterNoBreak(arr, n, i, steps) ==
    IF i >= n THEN [arr |-> arr, steps |-> steps, passes |-> <<>>]
    ELSE LET pass == BubbleInner(arr, n, i, 0, FALSE,
                                 Append(steps, [kind |-> "pass", num |-> i + 1]))
             r == BubbleOuterNoBreak(pass.arr, n, i + 1, pass.steps)
         IN [r EXCEPT !.passes = <<[i |-> i, compared |-> pass.compared]>> \o @]

\* for i in range(n).  Beside arr and steps the record carries passes, the
\* loop index and the comparisons of every run of the body.
RECURSIVE BubbleOuter(_, _, _, _)
BubbleOuter(arr, n, i, steps) ==
    IF i >= n THEN [arr |-> arr, steps |-> steps, passes |-> <<>>]
    ELSE LET pass == BubbleInner(arr, n, i, 0, FALSE,
                                 Append(steps, [kind |-> "pass", num |-> i + 1]))
             r == IF ~pass.swapped
                  THEN [arr |-> pass.arr, steps |-> Append(pass.steps, [kind |-> "sorted"]),
                        passes |-> <<>>]
                  ELSE BubbleOuter(pass.arr, n, i + 1, pass.steps)
         IN [r EXCEPT !.passes = <<[i |-> i, compared |-> pass.compared]>> \o @]

\* the outcome of the call, and with it the passes its loop made
bubble_sort(h, array) ==
    LET c == ListCopy(h, array)
        arr == c.heap[c.ref]
        r == BubbleOuter(arr, Len(arr), 0, <<[kind |-> "start", arr |-> arr]>>)
        o == Outcome([c.heap EXCEPT ![c.ref] = r.arr], r.arr,
                     Append(r.steps, [kind |-> "final", arr |-> r.arr]))
    IN [heap |-> o.heap, value |-> o.value, passes |-> r.passes]

\* for j in range(i + 1, n)
RECURSIVE SelectMin(_, _, _, _)
SelectMin(arr, n, j, min_idx) ==
    IF j >= n THEN min_idx
    ELSE IF At(arr, j) < At(arr, min_idx) THEN SelectMin(arr, n, j + 1, j)
    ELSE SelectMin(arr, n, j + 1, min_idx)

\* for i in range(n)
RECURSIVE SelectionOuter(_, _, _, _)
SelectionOuter(arr, n, i, steps) ==
    IF i >= n THEN [arr |-> arr, steps |-> steps]
    ELSE LET min_idx == SelectMin(arr, n, i + 1, i)
             headed == Append(steps, [kind |-> "pass", num |-> i + 1, from |-> i, to |-> n - 1])
         IN IF min_idx # i
            THEN LET sw == Put(Put(arr, i, At(arr, min_idx)), min_idx, At(arr, i))
                 IN SelectionOuter(sw, n, i + 1,
                                   Append(headed, [kind |-> "swapmin", a |-> At(sw, i),
                                                   b |-> At(sw, min_idx), arr |-> sw]))
            ELSE SelectionOuter(arr, n, i + 1,
                                Append(headed, [kind |-> "inplace", v |-> At(arr, i)]))

\* variant: the outer loop starts at the second position
selection_sort_skipfirst(h, array) ==
    LET c == ListCopy(h, array)
        arr == c.heap[c.ref]
        r == SelectionOuter(arr, Len(arr), 1, <<[kind |-> "start", arr |-> arr]>>)
    IN Outcome([c.heap EXCEPT ![c.ref] = r.arr], r.arr,
               Append(r.steps, [kind |-> "final", arr |-> r.arr]))

selection_sort(h, array) ==
    LET c == ListCopy(h, array)
        arr == c.heap[c.ref]
        r == SelectionOuter(arr, Len(arr), 0, <<[kind |-> "start", arr |-> arr]>>)
    IN Outcome([c.heap EXCEPT ![c.ref] = r.arr], r.arr,
               Append(r.steps, [kind |-> "final", arr |-> r.arr]))

\* variant: equal predecessors are shifted too
RECURSIVE InsertionShiftWeak(_, _, _, _)
InsertionShiftWeak(arr, j, key, steps) ==
    IF j >= 0 /\ At(arr, j) >= key
    THEN LET sh == Put(arr, j + 1, At(arr, j))
         IN InsertionShiftWeak(sh, j - 1, key,
                               Append(steps, [kind |-> "shift", v |-> At(sh, j), arr |-> sh]))
    ELSE [arr |-> arr, j |-> j, steps |-> steps]

\* while j >= 0 and arr[j] > key
RECURSIVE InsertionShift(_, _, _, _)
InsertionShift(arr, j, key, steps) ==
    IF j >= 0 /\ At(arr, j) > key
    THEN LET sh == Put(arr, j + 1, At(arr, j))
         IN InsertionShift(sh, j - 1, key,
                           Append(steps, [kind |-> "shift", v |-> At(sh, j), arr |-> sh]))
    ELSE [arr |-> arr, j |-> j, steps |-> steps]

\* for i in range(1, n)
RECURSIVE InsertionOuter(_, _, _, _)
InsertionOuter(arr, n, i, steps) ==
    IF i >= n THEN [arr |-> arr, steps |-> steps]
    ELSE LET key == At(arr, i)
             w == InsertionShift(arr, i - 1, key,
                                 Append(steps, [kind |-> "pass", num |-> i, key |-> key]))
             placed == Put(w.arr, w.j + 1, key)
         IN IF w.j + 1 # i
            THEN InsertionOuter(placed, n, i + 1,
                                Append(w.steps, [kind |-> "insert", key |-> key,
                                                 pos |-> w.j + 1, arr |-> placed]))
            ELSE InsertionOuter(placed, n, i + 1,
                                Append(w.steps, [kind |-> "inplace", v |-> key]))

insertion_sort(h, array) ==
    LET c == ListCopy(h, array)
        arr == c.heap[c.ref]
        r == InsertionOuter(arr, Len(arr), 1, <<[kind |-> "start", arr |-> arr]>>)
    IN Outcome([c.heap EXCEPT ![c.ref] = r.arr], r.arr,
               Append(r.steps, [kind |-> "final", arr |-> r.arr]))

(***************************************************************************)
(* SetOperations                                                           *)
(***************************************************************************)
\* variant: the second operand is dropped
union_left(set_a, set_b) == set_a

union(set_a, set_b) == set_a \cup set_b

intersection(set_a, set_b) == set_a \cap set_b

difference(set_a, set_b) == set_a \ set_b

cardinality(set_a) == Cardinality(set_a)

(***************************************************************************)
(* Inputs                                                                  *)
(***************************************************************************)
Chars == {"0", "1", "7", "9", "A", "f", "G", "-", "+", " ", "\t", "_"}

\* literals the documentation works through, longer than the enumerated ones
ExampleLiterals == {<<"2", "5", "5">>, <<"F", "F">>, <<"-", "1", "0">>,
                    <<"1", "1", "1", "1", "1", "1", "1", "1">>, <<"-", "1", "0", "1", "0">>}

Literals == (UNION {[1..n -> Chars] : n \in 0..MaxLitLen}) \cup ExampleLiterals

SupportedBases == {2, 8, 10, 16}

BaseInputs == SupportedBases \cup {7}

NoRet == [ok |-> FALSE, err |-> "pending"]

NoPrev == [call |-> [op |-> "none"], ret |-> NoRet]

NoHeap == <<>>

Pending == ret = NoRet

(***************************************************************************)
(* The converter called directly: any caller of the library holds a call   *)
(* of convert with any text and any two bases, makes it, and may feed the  *)
(* text it got back with the two bases exchanged.  The window's Convert    *)
(* handler, which trims the text and refuses an empty one before it calls  *)
(* convert, is ConvertNumber below.                                        *)
(***************************************************************************)
InitConv ==
    /\ call \in [op : {"convert"}, value : Literals, from_base : BaseInputs, to_base : BaseInputs]
    /\ ret = NoRet
    /\ prev = NoPrev
    /\ heap = NoHeap

Convert ==
    /\ call.op = "convert"
    /\ Pending
    /\ ret' = convert(call.value, call.from_base, call.to_base)
    /\ UNCHANGED <<call, prev, heap>>

ConvertBack ==
    /\ call.op = "convert"
    /\ ret.ok
    /\ call' = [op |-> "convert", value |-> ret.value,
                from_base |-> call.to_base, to_base |-> call.from_base]
    /\ ret' = convert(ret.value, call.to_base, call.from_base)
    /\ prev' = [call |-> call, ret |-> ret]
    /\ heap' = heap

NextConv == Convert \/ ConvertBack

SpecConv == InitConv /\ [][NextConv]_vars

(***************************************************************************)
(* Searching and sorting: the caller holds one list (reference 1 of its    *)
(* heap) and a call on it, makes the call, and may then sort the same list *)
(* again with any of the three algorithms.                                 *)
(***************************************************************************)
Vals == -1..MaxVal

ExampleSortArray == <<64, 34, 25, 12, 22, 11, 90>>

ExampleSearchArray == <<2, 5, 8, 12, 16, 23, 38, 45, 56>>

\* the non-decreasing sequences of length n over Vals
RECURSIVE SortedSeqs(_)
SortedSeqs(n) ==
    IF n = 0 THEN {<<>>}
    ELSE {Append(p[1], p[2]) :
             p \in {q \in SortedSeqs(n - 1) \X Vals : q[1] = <<>> \/ q[1][Len(q[1])] <= q[2]}}

\* sorted inputs as long as the documented search example
LongArrays == SortedSeqs(Len(ExampleSearchArray))

Arrays == (UNION {[1..n -> Vals] : n \in 0..MaxArrLen})
             \cup {ExampleSortArray, ExampleSearchArray} \cup LongArrays

Targets == Vals \cup {MaxVal + 1, 23}

SortKinds == {"bubble_sort", "selection_sort", "insertion_sort"}

SearchKinds == {"linear_search", "binary_search"}

InitArray ==
    /\ call \in [op : SortKinds, array : Arrays]
                  \cup [op : SearchKinds, array : Arrays, target : Targets]
    /\ heap = <<call.array>>
    /\ ret = NoRet
    /\ prev = NoPrev

Finish(o) ==
    /\ heap' = o.heap
    /\ ret' = IF "raised" \in DOMAIN o THEN Raise(o.raised) ELSE Return(o.value)
    /\ UNCHANGED <<call, prev>>

LinearSearch ==
    /\ call.op = "linear_search"
    /\ Pending
    /\ Finish(linear_search(heap, 1, call.target))

BinarySearch ==
    /\ call.op = "binary_search"
    /\ Pending
    /\ Finish(binary_search(heap, 1, call.target))

BubbleSort ==
    /\ call.op = "bubble_sort"
    /\ Pending
    /\ Finish(bubble_sort(heap, 1))

SelectionSort ==
    /\ call.op = "selection_sort"
    /\ Pending
    /\ Finish(selection_sort(heap, 1))

InsertionSort ==
    /\ call.op = "insertion_sort"
    /\ Pending
    /\ Finish(insertion_sort(heap, 1))

SortBy(kind, h, array) ==
    IF kind = "bubble_sort" THEN bubble_sort(h, array)
    ELSE IF kind = "selection_sort" THEN selection_sort(h, array)
    ELSE insertion_sort(h, array)

\* a further sort of the caller's list, the earlier result list dropped
SortAgain ==
    /\ call.op \in SortKinds
    /\ ret.ok
    /\ \E kind \in SortKinds :
          LET o == SortBy(kind, <<heap[1]>>, 1)
          IN /\ call' = [op |-> kind, array |-> heap[1]]
             /\ heap' = o.heap
             /\ ret' = Return(o.value)
    /\ prev' = [call |-> call, ret |-> ret]

\* the returned list is sorted once more by the same algorithm
SortResult ==
    /\ call.op \in SortKinds
    /\ ret.ok
    /\ LET o == SortBy(call.op, <<ret.value.result>>, 1)
       IN /\ call' = [op |-> call.op, array |-> ret.value.result]
          /\ heap' = o.heap
          /\ ret' = Return(o.value)
    /\ prev' = [call |-> call, ret |-> ret]

NextArray == LinearSearch \/ BinarySearch \/ BubbleSort \/ SelectionSort \/ InsertionSort
                \/ SortAgain \/ SortResult

SpecArray == InitArray /\ [][NextArray]_vars

(***************************************************************************)
(* Sets: the caller holds one call, makes it, and may then repeat it with  *)
(* the operands exchanged or take the cardinality of the set it got.       *)
(***************************************************************************)
Tokens == 1..MaxToken

BinarySetOps == {"union", "intersection", "difference"}

InitSet ==
    /\ call \in [op : BinarySetOps, set_a : SUBSET Tokens, set_b : SUBSET Tokens]
                  \cup [op : {"cardinality"}, set_a : SUBSET Tokens]
    /\ ret = NoRet
    /\ prev = NoPrev
    /\ heap = NoHeap

Union ==
    /\ call.op = "union"
    /\ Pending
    /\ ret' = Return(union(call.set_a, call.set_b))
    /\ UNCHANGED <<call, prev, heap>>

Intersection ==
    /\ call.op = "intersection"
    /\ Pending
    /\ ret' = Return(intersection(call.set_a, call.set_b))
    /\ UNCHANGED <<call, prev, heap>>

Difference ==
    /\ call.op = "difference"
    /\ Pending
    /\ ret' = Return(difference(call.set_a, call.set_b))
    /\ UNCHANGED <<call, prev, heap>>

CardinalityOf ==
    /\ call.op = "cardinality"
    /\ Pending
    /\ ret' = Return(cardinality(call.set_a))
    /\ UNCHANGED <<call, prev, heap>>

SetOp(op, set_a, set_b) ==
    IF op = "union" THEN union(set_a, set_b)
    ELSE IF op = "intersection" THEN intersection(set_a, set_b)
    ELSE difference(set_a, set_b)

Exchanged ==
    /\ call.op \in BinarySetOps
    /\ ret.ok
    /\ prev = NoPrev
    /\ call' = [op |-> call.op, set_a |-> call.set_b, set_b |-> call.set_a]
    /\ ret' = Return(SetOp(call.op, call.set_b, call.set_a))
    /\ prev' = [call |-> call, ret |-> ret]
    /\ heap' = heap

CardinalityOfResult ==
    /\ call.op \in BinarySetOps
    /\ ret.ok
    /\ prev = NoPrev
    /\ call' = [op |-> "cardinality", set_a |-> ret.value]
    /\ ret' = Return(cardinality(ret.value))
    /\ prev' = [call |-> call, ret |-> ret]
    /\ heap' = heap

NextSet == Union \/ Intersection \/ Difference \/ CardinalityOf \/ Exchanged
              \/ CardinalityOfResult

SpecSet == InitSet /\ [][NextSet]_vars

(***************************************************************************)
(* The window's Search and Sort handlers: the texts of the entry fields    *)
(* are drawn, the handler parses them and calls the library.  A handler    *)
(* ends by showing its output or an error dialog; the dialogs are          *)
(* "EnterArray" (Please enter an array!), "EnterTarget" (Please enter a    *)
(* target value!), "SearchFailed" and "SortFailed" (an exception caught),  *)
(* for the Convert handler "EnterNumber" (Please enter a number!) and      *)
(* "ConversionFailed" (an exception of the first call of convert caught),  *)
(* and for the Set handler "EnterSetA" (Please enter Set A!).              *)
(***************************************************************************)
\* the bases of base_map, in the order its items are visited
base_map == <<2, 8, 10, 16>>

\* for base_name, base_num in base_map.items(): the rows of the "All
\* Conversions" view from position k on; a call that raises adds no row
RECURSIVE AllConversions(_, _, _)
AllConversions(value, from_base, k) ==
    IF k > Len(base_map) THEN <<>>
    ELSE LET base_num == base_map[k]
             rest == AllConversions(value, from_base, k + 1)
         IN IF base_num = from_base THEN rest
            ELSE LET conv_result == convert(value, from_base, base_num)
                 IN IF conv_result.ok
                    THEN <<[base |-> base_num, text |-> conv_result.value]>> \o rest
                    ELSE rest

convert_number(h, num_input, from_base, to_base) ==
    LET value == Strip(num_input)
    IN IF value = <<>> THEN [heap |-> h, raised |-> "EnterNumber"]
       ELSE LET result == convert(value, from_base, to_base)
            IN IF ~result.ok THEN [heap |-> h, raised |-> "ConversionFailed"]
               ELSE [heap |-> h,
                     value |-> [input |-> value, result |-> result.value,
                                rows |-> AllConversions(value, from_base, 1)]]

\* s.split(sep)
RECURSIVE Split(_, _)
Split(s, sep) ==
    IF sep \notin Range(s) THEN <<s>>
    ELSE LET k == IndexOf(s, sep)
         IN <<SubSeq(s, 1, k)>> \o Split(SubSeq(s, k + 2, Len(s)), sep)

\* [x.strip() for x in array_str.split(",") if x.strip()]
Items(array_str) ==
    LET parts == Split(array_str, ",")
    IN SelectSeq([i \in 1..Len(parts) |-> Strip(parts[i])], LAMBDA x : x # <<>>)

\* try: [int(x.strip()) ...] except ValueError: [x.strip() ...]
ParseArray(array_str) ==
    LET items == Items(array_str)
    IN IF \A i \in 1..Len(items) : PyInt(items[i]).ok
       THEN [i \in 1..Len(items) |-> PyInt(items[i]).value]
       ELSE [i \in 1..Len(items) |-> StrCode(items[i])]

\* try: int(target_str.strip()) except ValueError: target_str.strip()
ParseTarget(target_str) ==
    LET parsed == PyInt(Strip(target_str))
    IN IF parsed.ok THEN parsed.value ELSE StrCode(Strip(target_str))

RECURSIVE InsertSorted(_, _)
InsertSorted(a, v) ==
    IF a = <<>> THEN <<v>>
    ELSE IF v < Head(a) THEN <<v>> \o a
    ELSE <<Head(a)>> \o InsertSorted(Tail(a), v)

\* sorted(array) for a list of ints or a list of strs
RECURSIVE PySorted(_)
PySorted(a) == IF a = <<>> THEN <<>> ELSE InsertSorted(PySorted(SubSeq(a, 1, Len(a) - 1)), a[Len(a)])

\* the handler's except clause: an exception of the call becomes a dialog
Shown(o, parsed, dialog) ==
    IF "raised" \in DOMAIN o THEN [heap |-> o.heap, raised |-> dialog]
    ELSE [heap |-> o.heap,
          value |-> parsed @@ [result |-> o.value.result, steps |-> o.value.steps]]

perform_search(h, array_input, target_input, algorithm) ==
    LET array_str == Strip(array_input)
        target_str == Strip(target_input)
    IN IF array_str = <<>> THEN [heap |-> h, raised |-> "EnterArray"]
       ELSE IF target_str = <<>> THEN [heap |-> h, raised |-> "EnterTarget"]
       ELSE LET array == ParseArray(array_str)
                target == ParseTarget(target_str)
                shown == [array |-> array, target |-> target]
                h1 == Append(h, array)
            IN IF algorithm = "linear"
               THEN Shown(linear_search(h1, Len(h1), target), shown, "SearchFailed")
               ELSE LET h2 == Append(h1, PySorted(array))
                    IN Shown(binary_search(h2, Len(h2), target), shown, "SearchFailed")

perform_sort(h, array_input, algorithm) ==
    LET array_str == Strip(array_input)
    IN IF array_str = <<>> THEN [heap |-> h, raised |-> "EnterArray"]
       ELSE LET array == ParseArray(array_str)
                shown == [array |-> array]
                c == ListCopy(Append(h, array), Len(h) + 1)
            IN IF algorithm = "bubble"
               THEN Shown(bubble_sort(c.heap, c.ref), shown, "SortFailed")
               ELSE IF algorithm = "selection"
               THEN Shown(selection_sort(c.heap, c.ref), shown, "SortFailed")
               ELSE Shown(insertion_sort(c.heap, c.ref), shown, "SortFailed")

\* set(item.strip() for item in set_str.split(",") if item.strip())
ParseSet(set_str) == Range(Items(set_str))

\* the Set handler; its sets hold the stripped strs themselves, and for
\* "cardinality" cards is the sizes shown, of A and of a non-empty B
perform_set_op(h, set_a_input, set_b_input, operation) ==
    LET set_a_str == Strip(set_a_input)
        set_b_str == Strip(set_b_input)
    IN IF set_a_str = <<>> THEN [heap |-> h, raised |-> "EnterSetA"]
       ELSE LET set_a == ParseSet(set_a_str)
                set_b == IF set_b_str # <<>> THEN ParseSet(set_b_str) ELSE {}
                shown == [set_a |-> set_a, set_b |-> set_b]
            IN IF operation = "union"
               THEN [heap |-> h, value |-> shown @@ [result |-> union(set_a, set_b)]]
               ELSE IF operation = "intersection"
               THEN [heap |-> h, value |-> shown @@ [result |-> intersection(set_a, set_b)]]
               ELSE IF operation = "difference"
               THEN [heap |-> h, value |-> shown @@ [result |-> difference(set_a, set_b)]]
               ELSE [heap |-> h,
                     value |-> shown @@
                         [cards |-> IF set_b # {}
                                    THEN <<cardinality(set_a), cardinality(set_b)>>
                                    ELSE <<cardinality(set_a)>>]]

Texts(n) == UNION {[1..k -> Range(CodePointOrder)] : k \in 0..n}

InitGui ==
    /\ call \in [op : {"perform_search"}, algorithm : {"linear", "binary"},
                  array_str : Texts(MaxArrText), target_str : Texts(MaxTargetText)]
                  \cup [op : {"perform_sort"}, algorithm : {"bubble", "selection", "insertion"},
                         array_str : Texts(MaxArrText)]
                  \cup [op : {"convert_number"}, num_input : Literals,
                         from_base : Range(base_map), to_base : Range(base_map)]
                  \cup [op : {"perform_set_op"}, operation : BinarySetOps \cup {"cardinality"},
                         set_a_input : Texts(MaxSetText), set_b_input : Texts(MaxSetText)]
    /\ ret = NoRet
    /\ prev = NoPrev
    /\ heap = NoHeap

PerformSearch ==
    /\ call.op = "perform_search"
    /\ Pending
    /\ Finish(perform_search(heap, call.array_str, call.target_str, call.algorithm))

PerformSort ==
    /\ call.op = "perform_sort"
    /\ Pending
    /\ Finish(perform_sort(heap, call.array_str, call.algorithm))

ConvertNumber ==
    /\ call.op = "convert_number"
    /\ Pending
    /\ Finish(convert_number(heap, call.num_input, call.from_base, call.to_base))

PerformSetOp ==
    /\ call.op = "perform_set_op"
    /\ Pending
    /\ Finish(perform_set_op(heap, call.set_a_input, call.set_b_input, call.operation))

NextGui == PerformSearch \/ PerformSort \/ ConvertNumber \/ PerformSetOp

SpecGui == InitGui /\ [][NextGui]_vars

(***************************************************************************)
(* The whole library                                                       *)
(***************************************************************************)
Init == InitConv \/ InitArray \/ InitSet \/ InitGui

Next == NextConv \/ NextArray \/ NextSet \/ NextGui

Spec == Init /\ [][Next]_vars

(***************************************************************************)
(* Vocabulary of the converter's contract, independent of the code above.  *)
(***************************************************************************)
LowerHex == {"a", "b", "c", "d", "e", "f"}

\* the digit alphabet of a base as the contract gives it (hex in either case)
Alphabet(b) ==
    IF b = 2 THEN {"0", "1"}
    ELSE IF b = 8 THEN {"0", "1", "2", "3", "4", "5", "6", "7"}
    ELSE IF b = 10 THEN {"0", "1", "2", "3", "4", "5", "6", "7", "8", "9"}
    ELSE {"0", "1", "2", "3", "4", "5", "6", "7", "8", "9",
          "A", "B", "C", "D", "E", "F"} \cup LowerHex

HasSign(L) == L # <<>> /\ Head(L) = "-"

Digits(L) == IF HasSign(L) THEN Tail(L) ELSE L

\* optional leading '-', then one or more digits of the base
ValidLiteral(L, b) ==
    /\ Digits(L) # <<>>
    /\ \A i \in 1..Len(Digits(L)) : Digits(L)[i] \in Alphabet(b)

DigitValue(c) ==
    CHOOSE v \in 0..15 : <<v, c>> \in
        {<<0, "0">>, <<1, "1">>, <<2, "2">>, <<3, "3">>, <<4, "4">>, <<5, "5">>, <<6, "6">>,
         <<7, "7">>, <<8, "8">>, <<9, "9">>, <<10, "A">>, <<11, "B">>, <<12, "C">>,
         <<13, "D">>, <<14, "E">>, <<15, "F">>, <<10, "a">>, <<11, "b">>, <<12, "c">>,
         <<13, "d">>, <<14, "e">>, <<15, "f">>}

\* most significant digit first
RECURSIVE Magnitude(_, _, _)
Magnitude(ds, b, acc) ==
    IF ds = <<>> THEN acc ELSE Magnitude(Tail(ds), b, acc * b + DigitValue(Head(ds)))

\* the integer a valid literal denotes
Denotes(L, b) == (IF HasSign(L) THEN -1 ELSE 1) * Magnitude(Digits(L), b, 0)

RECURSIVE DropZeros(_)
DropZeros(ds) == IF ds # <<>> /\ Head(ds) = "0" THEN DropZeros(Tail(ds)) ELSE ds

\* strips leading zeros, preserves the sign, maps zero to "0"
Normalize(L) ==
    LET ds == DropZeros(Digits(L))
    IN IF ds = <<>> THEN <<"0">>
       ELSE IF HasSign(L) THEN <<"-">> \o ds ELSE ds

\* r is the canonical numeral of v in a base: unique by positional notation
Canonical(r, v, b) ==
    IF v = 0 THEN r = <<"0">>
    ELSE /\ HasSign(r) <=> v < 0
         /\ Digits(r) # <<>>
         /\ Head(Digits(r)) # "0"
         /\ \A i \in 1..Len(Digits(r)) : Digits(r)[i] \in Alphabet(b) \ LowerHex
         /\ Magnitude(Digits(r), b, 0) = Abs(v)

Returned == call.op = "convert" /\ ~Pending

Done(ops) == call.op \in ops /\ ~Pending

(***************************************************************************)
(* C1  Round trip                                                          *)
(***************************************************************************)
RoundTripCase ==
    /\ call.op = "convert"
    /\ prev.call.op = "convert"
    /\ prev.call.from_base \in SupportedBases
    /\ prev.call.to_base \in SupportedBases
    /\ ValidLiteral(prev.call.value, prev.call.from_base)

\* C1 as stated: converting a valid literal from base b to base c and back
\* to b returns the literal with leading zeros stripped, sign preserved
\* and zero as "0".
C1_RoundTripAsStated == RoundTripCase => ret = Return(Normalize(prev.call.value))

\* C1 amended: converting a valid literal from base b to base c and back
\* to b returns the normalised literal with its hexadecimal digits in
\* upper case.
C1_RoundTrip == RoundTripCase => ret = Return(Upper(Normalize(prev.call.value)))

C1_Witness ==
    /\ RoundTripCase
    /\ prev.call.value = <<"-", "0", "f">>
    /\ prev.call.from_base = 16
    /\ prev.call.to_base = 2
    /\ ret = Return(<<"-", "F">>)

(***************************************************************************)
(* C2  Value preservation                                                  *)
(***************************************************************************)
ValueCase ==
    /\ Returned
    /\ call.from_base \in SupportedBases
    /\ call.to_base \in SupportedBases
    /\ ValidLiteral(call.value, call.from_base)

Example(value, from_base, to_base, text) ==
    (Returned /\ call.value = value /\ call.from_base = from_base /\ call.to_base = to_base)
        => ret = Return(text)

\* C2: convert of a valid literal denoting v returns the canonical numeral
\* of v in the target base ("0" for zero, no leading zero, upper-case hex
\* digits, '-' exactly when v < 0); 255 (10) is FF (16), FF (16) is
\* 11111111 (2) and -10 (10) is -1010 (2).
C2_ValuePreserved ==
    /\ ValueCase => ret.ok /\ Canonical(ret.value, Denotes(call.value, call.from_base), call.to_base)
    /\ Example(<<"2", "5", "5">>, 10, 16, <<"F", "F">>)
    /\ Example(<<"F", "F">>, 16, 2, <<"1", "1", "1", "1", "1", "1", "1", "1">>)
    /\ Example(<<"-", "1", "0">>, 10, 2, <<"-", "1", "0", "1", "0">>)

C2_Witness ==
    /\ ValueCase
    /\ call.value = <<"-", "1", "0">>
    /\ call.from_base = 10
    /\ call.to_base = 2
    /\ ret = Return(<<"-", "1", "0", "1", "0">>)

(***************************************************************************)
(* C7  Invalid digits                                                      *)
(***************************************************************************)
WithoutWhitespace(L) == SelectSeq(L, LAMBDA c : c \notin Whitespace)

\* after removing whitespace and one leading '-', some character is
\* outside the alphabet of the base
HasInvalidDigit(L, b) ==
    \E i \in 1..Len(Digits(WithoutWhitespace(L))) :
        Digits(WithoutWhitespace(L))[i] \notin Alphabet(b)

InvalidDigitCase ==
    /\ Returned
    /\ call.from_base \in {2, 8, 16}
    /\ HasInvalidDigit(call.value, call.from_base)

\* C7: from base 2, 8 or 16, a literal with a character outside the base's
\* alphabet makes convert raise the invalid-digit error, whatever the
\* target base.
C7_InvalidDigit == InvalidDigitCase => ret = Raise("InvalidDigit")

C7_Witness ==
    /\ InvalidDigitCase
    /\ call.value = <<"-", "1", "9">>
    /\ call.from_base = 8
    /\ call.to_base = 7
    /\ ret = Raise("InvalidDigit")

(***************************************************************************)
(* C8  Empty literal                                                       *)
(***************************************************************************)
\* C8: from every supported base and to every base, a literal that is
\* empty after stripping makes convert fail with InvalidFormat.
C8_EmptyLiteralFails ==
    (Returned /\ call.from_base \in SupportedBases /\ Strip(call.value) = <<>>)
        => ret = Raise("InvalidFormat")

(***************************************************************************)
(* C9  Unsupported base                                                    *)
(***************************************************************************)
UnsupportedCase ==
    /\ Returned
    /\ (call.from_base \notin SupportedBases \/ call.to_base \notin SupportedBases)

\* C9 as stated: with a source or target base outside {2,8,10,16} convert
\* fails with UnsupportedBase, for every literal.
C9_UnsupportedBaseAsStated == UnsupportedCase => ret = Raise("UnsupportedBase")

\* C9 amended: with a source or target base outside {2,8,10,16} convert
\* returns no result; the error is UnsupportedBase when the source base is
\* unsupported or when the literal converts from the source base to base
\* 10, and otherwise the error that converting it to base 10 raises.
C9_UnsupportedBase ==
    UnsupportedCase =>
        /\ ~ret.ok
        /\ call.from_base \notin SupportedBases => ret = Raise("UnsupportedBase")
        /\ call.from_base \in SupportedBases =>
               LET toTen == convert(call.value, call.from_base, 10)
               IN IF toTen.ok THEN ret = Raise("UnsupportedBase") ELSE ret = toTen

C9_Witness ==
    /\ UnsupportedCase
    /\ call.value = <<"1", "0">>
    /\ call.from_base = 2
    /\ call.to_base = 7
    /\ ret = Raise("UnsupportedBase")

(***************************************************************************)
(* C10  '+' prefix                                                         *)
(***************************************************************************)
PlusDigits(L, b) ==
    /\ Len(L) >= 2
    /\ Head(L) = "+"
    /\ \A i \in 2..Len(L) : L[i] \in Alphabet(b)

\* C10 as stated: from base 10, a literal with a '+' prefix makes convert
\* fail, for every target base.
C10_PlusRejectedAsStated ==
    (Returned /\ call.from_base = 10 /\ PlusDigits(call.value, 10)) => ~ret.ok

\* C10 amended: from base 10, a '+' followed by decimal digits is accepted
\* and converts, to every supported target base, to the canonical numeral
\* of the value of the digits; from base 2, 8 or 16 a '+' prefix is an
\* invalid digit.
C10_PlusPrefix ==
    /\ (Returned /\ call.from_base = 10 /\ PlusDigits(call.value, 10)
            /\ call.to_base \in SupportedBases)
           => ret.ok /\ Canonical(ret.value, Magnitude(Tail(call.value), 10, 0), call.to_base)
    /\ (Returned /\ call.from_base \in {2, 8, 16} /\ PlusDigits(call.value, call.from_base))
           => ret = Raise("InvalidDigit")

C10_Witness ==
    /\ Returned
    /\ call.value = <<"+", "9">>
    /\ call.from_base = 10
    /\ call.to_base = 2
    /\ ret = Return(<<"1", "0", "0", "1">>)

(***************************************************************************)
(* Vocabulary of the array contracts                                       *)
(***************************************************************************)
IsSorted(a) == \A i \in 1..(Len(a) - 1) : a[i] <= a[i + 1]

Count(a, v) == Cardinality({i \in 1..Len(a) : a[i] = v})

IsPermutation(a, b) ==
    /\ Len(a) = Len(b)
    /\ \A v \in Range(a) \cup Range(b) : Count(a, v) = Count(b, v)

Occurs(a, v) == \E i \in 1..Len(a) : a[i] = v

Last(s) == s[Len(s)]

(***************************************************************************)
(* C3  The three sorts agree on the sorted permutation                     *)
(***************************************************************************)
\* C3: each of bubble_sort, selection_sort and insertion_sort returns the
\* non-decreasing permutation of its input, so two of them applied to the
\* same input return the same result; bubble sort of
\* [64,34,25,12,22,11,90] is [11,12,22,25,34,64,90].
C3_SortsAgree ==
    /\ Done(SortKinds) =>
          /\ IsSorted(ret.value.result)
          /\ IsPermutation(ret.value.result, call.array)
    /\ (Done(SortKinds) /\ prev.call.op \in SortKinds /\ prev.call.array = call.array)
          => ret.value.result = prev.ret.value.result
    /\ (Done({"bubble_sort"}) /\ call.array = ExampleSortArray)
          => ret.value.result = <<11, 12, 22, 25, 34, 64, 90>>

C3_Witness ==
    /\ Done({"selection_sort"})
    /\ prev.call.op = "insertion_sort"
    /\ prev.call.array = <<3, 1, 2, 1>>
    /\ call.array = <<3, 1, 2, 1>>
    /\ ret.value.result = <<1, 1, 2, 3>>

(***************************************************************************)
(* C4  Search results                                                      *)
(***************************************************************************)
SearchCase ==
    \/ Done({"linear_search"})
    \/ Done({"binary_search"}) /\ IsSorted(call.array)

\* C4: linear search on any sequence and binary search on a non-decreasing
\* one return an index holding the target whenever the target occurs, and
\* return -1 with the failure line last in the trace exactly when it does
\* not occur.
C4_SearchCorrect ==
    SearchCase =>
        /\ Occurs(call.array, call.target) =>
              /\ ret.value.result \in 0..(Len(call.array) - 1)
              /\ At(call.array, ret.value.result) = call.target
        /\ (ret.value.result = -1 /\ Last(ret.value.steps).kind = "notfound")
              <=> ~Occurs(call.array, call.target)

C4_Witness ==
    /\ Done({"binary_search"})
    /\ call.array = <<0, 1, 1, 3>>
    /\ call.target = 3
    /\ ret.value.result = 3
    /\ Last(ret.value.steps).kind = "found"

(***************************************************************************)
(* C5  Copy on entry                                                       *)
(***************************************************************************)
\* C5: after a call of any of the three sorts or the two searches the
\* caller's list holds exactly the contents, in the order, it held when
\* the call was made.
C5_CopyOnEntry == Done(SortKinds \cup SearchKinds) => heap[1] = call.array

C5_Witness ==
    /\ Done({"bubble_sort"})
    /\ call.array = <<3, 1, 2>>
    /\ ret.value.result = <<1, 2, 3>>
    /\ heap[1] = <<3, 1, 2>>

(***************************************************************************)
(* C6  Set laws                                                            *)
(***************************************************************************)
\* C6: union, intersection and difference return exactly the tokens in A
\* or B, in both, in A and not in B; union(A,B) = union(B,A),
\* intersection(A,A) = A, difference(A,A) = {} and
\* cardinality(union(A,B)) <= cardinality(A) + cardinality(B).
C6_SetLaws ==
    /\ Done({"union"}) =>
          \A t \in Tokens : t \in ret.value <=> (t \in call.set_a \/ t \in call.set_b)
    /\ Done({"intersection"}) =>
          \A t \in Tokens : t \in ret.value <=> (t \in call.set_a /\ t \in call.set_b)
    /\ Done({"difference"}) =>
          \A t \in Tokens : t \in ret.value <=> (t \in call.set_a /\ t \notin call.set_b)
    /\ (Done({"union"}) /\ prev.call.op = "union") => ret.value = prev.ret.value
    /\ (Done({"intersection"}) /\ call.set_a = call.set_b) => ret.value = call.set_a
    /\ (Done({"difference"}) /\ call.set_a = call.set_b) => ret.value = {}
    /\ (Done({"cardinality"}) /\ prev.call.op = "union")
          => ret.value <= Cardinality(prev.call.set_a) + Cardinality(prev.call.set_b)

C6_Witness ==
    /\ Done({"cardinality"})
    /\ prev.call.op = "union"
    /\ prev.call.set_a = {1, 2}
    /\ prev.call.set_b = {2, 3}
    /\ call.set_a = {1, 2, 3}
    /\ ret.value = 3

(***************************************************************************)
(* C11  Idempotence                                                        *)
(***************************************************************************)
ResortCase ==
    /\ Done(SortKinds)
    /\ prev.call.op = call.op
    /\ call.array = prev.ret.value.result

\* C11: sorting the result of a sort again with the same algorithm returns
\* that result unchanged.
C11_Idempotent == ResortCase => ret.value.result = call.array

C11_Witness ==
    /\ ResortCase
    /\ call.op = "bubble_sort"
    /\ prev.call.array = <<3, 2, 1>>
    /\ call.array = <<1, 2, 3>>
    /\ ret.value.result = <<1, 2, 3>>

(***************************************************************************)
(* C12  Bubble sort's early exit                                           *)
(***************************************************************************)
Kinds(steps) == [k \in 1..Len(steps) |-> steps[k].kind]

SortedInputCase == Done({"bubble_sort"}) /\ IsSorted(call.array)

OnePassThenSorted ==
    /\ Count(Kinds(ret.value.steps), "pass") = 1
    /\ Occurs(Kinds(ret.value.steps), "sorted")

\* C12 as stated: on every non-decreasing input, lengths 0 and 1 included,
\* bubble_sort's trace has exactly one pass header and the "No swaps
\* needed, array is sorted" line.
C12_EarlyExitAsStated == SortedInputCase => OnePassThenSorted

\* C12 amended: on every non-empty non-decreasing input, length 1
\* included, bubble_sort's trace has exactly one pass header and the "No
\* swaps needed, array is sorted" line; on the empty input the trace has
\* no pass header and no such line.
C12_EarlyExit ==
    SortedInputCase =>
        IF call.array # <<>> THEN OnePassThenSorted
        ELSE Kinds(ret.value.steps) = <<"start", "final">>

C12_Witness ==
    /\ SortedInputCase
    /\ call.array = <<0, 1, 1, 3>>
    /\ Kinds(ret.value.steps) = <<"start", "pass", "sorted", "final">>

(***************************************************************************)
(* C13  The worked linear search                                           *)
(***************************************************************************)
WorkedLinearCase ==
    /\ Done({"linear_search"})
    /\ call.array = ExampleSearchArray
    /\ call.target = 23

\* C13 as stated: linear search for 23 in [2,5,8,12,16,23,38,45,56]
\* returns index 5 with a trace of exactly 6 lines.
C13_WorkedLinearAsStated ==
    WorkedLinearCase => ret.value.result = 5 /\ Len(ret.value.steps) = 6

\* C13 amended: linear search for 23 in [2,5,8,12,16,23,38,45,56] returns
\* index 5 with a trace of exactly 7 lines, six comparison lines and the
\* success line.
C13_WorkedLinear ==
    WorkedLinearCase =>
        /\ ret.value.result = 5
        /\ Kinds(ret.value.steps) = <<"check", "check", "check", "check", "check", "check", "found">>

C13_Witness == WorkedLinearCase /\ ret.value.result = 5 /\ Len(ret.value.steps) = 7

(***************************************************************************)
(* C14  Binary search probes logarithmically                               *)
(***************************************************************************)
\* floor(log2 n) + 1 for n >= 1, and 0 for n = 0
RECURSIVE BitLength(_)
BitLength(n) == IF n = 0 THEN 0 ELSE 1 + BitLength(n \div 2)

\* the trace of a linear search of a non-empty sorted list for a value it
\* lacks: every element is compared, the longest trace for that length
LinearWorst(a) == linear_search(<<a>>, 1, a[Len(a)] + 1).value.steps

BinaryDone == Done({"binary_search"}) /\ ret.ok

\* C14: binary search for 23 in [2,5,8,12,16,23,38,45,56] returns index 5;
\* on every non-decreasing sequence of length 9 and for every target its
\* trace is strictly shorter than the longest linear-search trace for
\* that length; and on every sequence of length n it makes at most
\* floor(log2 n) + 1 probes (none when n = 0).
C14_BinaryLogarithmic ==
    /\ (BinaryDone /\ call.array = ExampleSearchArray /\ call.target = 23)
          => ret.value.result = 5
    /\ (BinaryDone /\ IsSorted(call.array) /\ Len(call.array) = Len(ExampleSearchArray))
          => Len(ret.value.steps) < Len(LinearWorst(call.array))
    /\ BinaryDone => Count(Kinds(ret.value.steps), "probe") <= BitLength(Len(call.array))

C14_Witness ==
    /\ BinaryDone
    /\ call.array = ExampleSearchArray
    /\ call.target = 23
    /\ ret.value.result = 5
    /\ Kinds(ret.value.steps) = <<"probe", "right", "probe", "left", "probe", "found">>
    /\ Len(LinearWorst(call.array)) = Len(call.array) + 1

(***************************************************************************)
(* C18  Binary-search index safety                                         *)
(***************************************************************************)
\* the (left, mid, right) triples of the loop iterations of the call made
Iterations == binary_search(<<call.array>>, 1, call.target).iters

\* C18: for every sequence of length n, sorted or not, and every target,
\* each iteration of binary search has 0 <= left <= mid <= right <= n-1,
\* so no probe is out of range and the call returns, and the width
\* right-left strictly decreases from each iteration to the next.
C18_IndexSafety ==
    Done({"binary_search"}) =>
        /\ ret.ok
        /\ \A k \in 1..Len(Iterations) :
              LET it == Iterations[k]
              IN /\ 0 <= it.left
                 /\ it.left <= it.mid
                 /\ it.mid <= it.right
                 /\ it.right <= Len(call.array) - 1
        /\ \A k \in 1..(Len(Iterations) - 1) :
              Iterations[k + 1].right - Iterations[k + 1].left
                  < Iterations[k].right - Iterations[k].left

C18_Witness ==
    /\ Done({"binary_search"})
    /\ ret.ok
    /\ ~IsSorted(call.array)
    /\ Len(call.array) = MaxArrLen
    /\ Len(Iterations) = BitLength(Len(call.array))
    /\ ret.value.result = -1

(***************************************************************************)
(* C17  Linear-search trace and early exit                                 *)
(***************************************************************************)
\* the 0-based index of the first element equal to v
FirstOccurrence(a, v) ==
    CHOOSE k \in 0..(Len(a) - 1) : a[k + 1] = v /\ \A j \in 0..(k - 1) : a[j + 1] # v

\* line i (1-based) of the trace compares the element at index i - 1
ComparesInOrder(steps, count, k) ==
    \A i \in 1..count :
        /\ steps[i].kind = "check"
        /\ steps[i].index = i - 1
        /\ steps[i].rel = IF i - 1 = k THEN "=" ELSE "/="

\* C17: when the target first occurs at index k, linear_search returns k
\* and its trace is one comparison line for each index 0..k in increasing
\* order ('/=' below k, '=' at k) followed by one success line and nothing
\* else; when the target is absent from a sequence of length n the trace
\* is n comparison lines, all '/=', followed by one failure line.
C17_LinearTrace ==
    Done({"linear_search"}) =>
        LET steps == ret.value.steps
            n == Len(call.array)
        IN IF Occurs(call.array, call.target)
           THEN LET k == FirstOccurrence(call.array, call.target)
                IN /\ ret.value.result = k
                   /\ Len(steps) = k + 2
                   /\ ComparesInOrder(steps, k + 1, k)
                   /\ steps[k + 2].kind = "found"
           ELSE /\ ret.value.result = -1
                /\ Len(steps) = n + 1
                /\ ComparesInOrder(steps, n, -1)
                /\ steps[n + 1].kind = "notfound"

\* a match with later occurrences left unscanned
C17_Witness ==
    /\ Done({"linear_search"})
    /\ Occurs(call.array, call.target)
    /\ Count(call.array, call.target) > 1
    /\ FirstOccurrence(call.array, call.target) > 0
    /\ ret.value.result = FirstOccurrence(call.array, call.target)
    /\ Len(ret.value.steps) < Len(call.array) + 1

(***************************************************************************)
(* C19  Insertion-sort trace                                               *)
(***************************************************************************)
\* the predecessors of the element at 0-based index i that exceed it
GreaterBefore(a, i) == Cardinality({j \in 1..i : a[j] > a[i + 1]})

\* the pairs of positions that are out of order
Inversions(a) ==
    Cardinality({p \in (1..Len(a)) \X (1..Len(a)) : p[1] < p[2] /\ a[p[1]] > a[p[2]]})

Repeat(n, x) == [k \in 1..n |-> x]

\* the kinds of the lines of passes i..n-1 on the input a
RECURSIVE PassLines(_, _)
PassLines(a, i) ==
    IF i >= Len(a) THEN <<>>
    ELSE <<"pass">> \o Repeat(GreaterBefore(a, i), "shift")
            \o <<IF GreaterBefore(a, i) = 0 THEN "inplace" ELSE "insert">>
            \o PassLines(a, i + 1)

\* the pass headers of a trace, in order
PassHeaders(steps) == SelectSeq(steps, LAMBDA line : line.kind = "pass")

\* C19: on an input of length n the insertion-sort trace has one pass for
\* each i from 1 to n-1, in order, each holding the element at index i; a
\* pass is one shift line per predecessor strictly greater than the key,
\* then one placement line, "already in correct position" exactly when the
\* pass shifted nothing and "Inserted ... at position" otherwise; the
\* shift lines of the whole trace number the inversions of the input.
C19_InsertionTrace ==
    Done({"insertion_sort"}) =>
        LET steps == ret.value.steps
            headers == PassHeaders(steps)
        IN /\ Kinds(steps) = <<"start">> \o PassLines(call.array, 1) \o <<"final">>
           /\ Len(headers) = IF Len(call.array) = 0 THEN 0 ELSE Len(call.array) - 1
           /\ \A i \in 1..Len(headers) :
                 headers[i].num = i /\ headers[i].key = call.array[i + 1]
           /\ Count(Kinds(steps), "shift") = Inversions(call.array)

\* a pass with several shifts, a pass with none, and an equal predecessor
C19_Witness ==
    /\ Done({"insertion_sort"})
    /\ Len(call.array) = MaxArrLen
    /\ \E i \in 1..(Len(call.array) - 1) : GreaterBefore(call.array, i) > 1
    /\ \E i \in 1..(Len(call.array) - 1) :
          GreaterBefore(call.array, i) = 0 /\ call.array[i] = call.array[i + 1]
    /\ Occurs(Kinds(ret.value.steps), "inplace")
    /\ Occurs(Kinds(ret.value.steps), "insert")
    /\ Count(Kinds(ret.value.steps), "shift") = Inversions(call.array)

(***************************************************************************)
(* C15  Bubble-sort passes and their windows                               *)
(***************************************************************************)
\* the runs of the outer loop body of the call made
Passes == bubble_sort(<<call.array>>, 1).passes

\* the run with loop index i compares only pairs (j, j+1) with j in
\* [0, n-i-1), one header per run, numbered i+1
WindowsShrink ==
    /\ Len(Passes) = Count(Kinds(ret.value.steps), "pass")
    /\ \A p \in 1..Len(Passes) :
          /\ Passes[p].i = p - 1
          /\ \A c \in 1..Len(Passes[p].compared) :
                /\ 0 <= Passes[p].compared[c]
                /\ Passes[p].compared[c] < Len(call.array) - Passes[p].i - 1

\* C15 as stated: on an input of length n the trace has at most n-1 pass
\* headers, and pass i compares only adjacent pairs in [0, n-i-1).
C15_PassBoundAsStated ==
    Done({"bubble_sort"}) =>
        /\ Count(Kinds(ret.value.steps), "pass") <= Len(call.array) - 1
        /\ WindowsShrink

\* C15: on an input of length n the trace has at most n pass headers, and
\* the pass with loop index i (header "Pass i+1") compares only adjacent
\* pairs (j, j+1) with j in the window [0, n-i-1).
C15_PassBound ==
    Done({"bubble_sort"}) =>
        /\ Count(Kinds(ret.value.steps), "pass") <= Len(call.array)
        /\ WindowsShrink

\* all n passes are made, the last over an empty window
C15_Witness ==
    /\ Done({"bubble_sort"})
    /\ Len(call.array) = MaxArrLen
    /\ Count(Kinds(ret.value.steps), "pass") = Len(call.array)
    /\ Passes[Len(Passes)].compared = <<>>
    /\ Len(Passes[1].compared) = Len(call.array) - 1

(***************************************************************************)
(* C20  Interior whitespace                                                *)
(***************************************************************************)
\* the literal is a valid one of its base with whitespace put between
\* its characters
InteriorWhitespaceCase ==
    /\ Returned
    /\ call.from_base \in SupportedBases
    /\ call.value # <<>>
    /\ Head(call.value) \notin Whitespace
    /\ Last(call.value) \notin Whitespace
    /\ \E i \in 1..Len(call.value) : call.value[i] \in Whitespace
    /\ ValidLiteral(WithoutWhitespace(call.value), call.from_base)

\* C20: for every source base in {2, 8, 10, 16}, a valid literal with
\* whitespace inserted between its characters converts to what the literal
\* itself converts to, and does not fail because of the whitespace.
C20_InteriorWhitespace ==
    InteriorWhitespaceCase =>
        ret = convert(WithoutWhitespace(call.value), call.from_base, call.to_base)

(***************************************************************************)
(* C16  One ordering per array                                             *)
(***************************************************************************)
\* the trimmed, non-empty literals of the array text
ArrayLiterals == Items(Strip(call.array_str))

\* every element parses as an integer
Numeric(literals) == \A i \in 1..Len(literals) : PyInt(literals[i]).ok

\* a handler that got past its empty-input dialogs
SearchHandled ==
    /\ Done({"perform_search"})
    /\ Strip(call.array_str) # <<>>
    /\ Strip(call.target_str) # <<>>

SortHandled == Done({"perform_sort"}) /\ Strip(call.array_str) # <<>>

\* all elements are of the variant decided for the whole array
OneVariant(array) == \A i \in 1..Len(array) : IsStr(array[i]) = ~Numeric(ArrayLiterals)

\* C16: the Numeric-vs-Textual decision is made once for the whole array
\* (Numeric only if every element parses as an integer) and every
\* comparison of a search or a sort is made under that ordering: the array
\* handed to the library is of one variant and a sort returns it in that
\* variant's order; in a search the target is of the array's variant, a
\* target whose trimmed literal is an element's trimmed literal is found,
\* and no comparison between a number and a string is made, so none fails.
C16_OneOrdering ==
    /\ SortHandled =>
          /\ ret.ok
          /\ OneVariant(ret.value.array)
          /\ IsSorted(ret.value.result)
          /\ IsPermutation(ret.value.result, ret.value.array)
    /\ SearchHandled =>
          /\ ret.ok
          /\ OneVariant(ret.value.array)
          /\ ArrayLiterals # <<>> => IsStr(ret.value.target) = ~Numeric(ArrayLiterals)
          /\ Occurs(ArrayLiterals, Strip(call.target_str)) => ret.value.result # -1

====
